---- MODULE Spec2Model ----
(***************************************************************************)
(* Model of the artifact lifecycle pipeline of formconv/core.py:           *)
(* validate_xlsform_file / find_and_move_file (the artifact locator),      *)
(* create_xlsform (agent invocation and first relocation),                 *)
(* convert_xlsx_to_json (conversion client) and generate_form_json (the    *)
(* orchestrator).                                                          *)
(*                                                                         *)
(* A path is the sequence of its components.  Only files carrying the      *)
(* expected basename of the current run are tracked: fs maps each          *)
(* location to the file of that name it holds, if any.  shutil.move is     *)
(* modelled as an atomic rename that either succeeds or fails leaving the  *)
(* filesystem untouched; which sources fail to move is an input.           *)
(***************************************************************************)
EXTENDS Integers, Sequences, FiniteSets, TLC

VARIABLES fs, resolve, pc, clock, names, agent, create, http, out, events,
          answer

vars == <<fs, resolve, pc, clock, names, agent, create, http, out, events,
          answer>>

(* ------------------------------ bounds -------------------------------- *)

\* Length of the chain of nested directories home/d/d/... below home.
MaxTreeDepth == 5
\* Most files with the expected basename present at once.
MaxFiles == 2
\* Most files with the expected basename the agent leaves behind.
MaxAgentFiles == 1
\* Largest file size in bytes.
MaxSize == 1
\* Most standalone calls of validate_xlsform_file in a row.
MaxCalls == 2
\* Last second the clock reaches.
MaxClock == 1
\* Longest response body, in characters.
MaxBodyLen == 2

(* -------------------------- program constants ------------------------- *)

\* core.py:162  "if depth > 3"
DepthLimit == 3
\* core.py:312  "response.status_code == 200"
StatusOK == 200

(* ------------------------------ paths --------------------------------- *)

\* os.getcwd()
Cwd == <<"cwd">>
\* os.path.join(current_dir, filename), filename = "output_files/<base>_<ts>.xlsx"
Canon == <<"cwd", "output_files">>
\* os.path.expanduser("~")
home_dir == <<"home">>
Tmp == <<"tmp">>
VarTmp == <<"var", "tmp">>
Downloads == <<"home", "Downloads">>
Desktop == <<"home", "Desktop">>

\* The directory k levels below home on the chain home/d/d/...
Chain(k) == [i \in 1..(k + 1) |-> IF i = 1 THEN "home" ELSE "d"]

Dirs == {Cwd, Tmp, VarTmp, home_dir, Downloads, Desktop}
            \cup {Chain(k) : k \in 1..MaxTreeDepth}

Locs == Dirs \cup {Canon}

(* ---------------------------- filesystem ------------------------------ *)

NoFile == [exists |-> FALSE, size |-> 0, origin |-> <<>>]

\* A file of n bytes first written at location p.
File(p, n) == [exists |-> TRUE, size |-> n, origin |-> p]

EmptyFs == [p \in Locs |-> NoFile]

\* Every filesystem holding at most n files of the expected basename.
FsUpTo(n) ==
    UNION { { [p \in Locs |-> IF p \in S THEN File(p, sz[p]) ELSE NoFile] :
                sz \in [S -> 0..MaxSize] } :
            S \in {T \in SUBSET Locs : Cardinality(T) <= n} }

\* The filesystems validate_xlsform_file is called on when called on its own.
FsStates == FsUpTo(MaxFiles)

\* The filesystems the agent may leave behind.
AgentFsStates == FsUpTo(MaxAgentFiles)

\* os.path.exists
exists(f, p) == f[p].exists

\* os.path.getsize
getsize(f, p) == f[p].size

\* shutil.move(src, dst), when it succeeds
move(f, src, dst) == [f EXCEPT ![dst] = f[src], ![src] = NoFile]

\* The locations of f that hold a file.
Holding(f) == {p \in Locs : exists(f, p)}

(* --------------------- find_and_move_file (core.py:112) --------------- *)

\* What a search returns: its verdict, the filesystem it leaves, the sources
\* it tried to move in order, and the directories os.walk yielded in order.
SearchResult(r, f, a, w) == [ret |-> r, fs |-> f, attempts |-> a, walked |-> w]

\* Mutant: /tmp left out of the search paths.
search_paths_NoTmp == <<VarTmp, Downloads, Desktop, Cwd>>

\* core.py:134-140
search_paths == <<Tmp, VarTmp, Downloads, Desktop, Cwd>>

\* core.py:142-153: the first search path whose file moves wins; a failed
\* move is logged and the loop goes on.  F is the set of sources whose move
\* fails.
RECURSIVE search_paths_loop(_, _, _, _)
search_paths_loop(paths, f, F, attempts) ==
    IF paths = <<>>
    THEN SearchResult(FALSE, f, attempts, <<>>)
    ELSE LET potential_path == Head(paths)
         IN IF exists(f, potential_path)
            THEN IF potential_path \notin F
                 THEN SearchResult(TRUE, move(f, potential_path, Canon),
                                   Append(attempts, potential_path), <<>>)
                 ELSE search_paths_loop(Tail(paths), f, F,
                                        Append(attempts, potential_path))
            ELSE search_paths_loop(Tail(paths), f, F, attempts)

\* core.py:161  depth = root[len(home_dir):].count(os.sep)
Depth(root) == Len(SubSeq(root, Len(home_dir) + 1, Len(root)))

\* core.py:162  "if depth > 3"
TooDeep(root) == Depth(root) > DepthLimit

\* The order in which a directory lists its entries.
EntryOrder == <<"Downloads", "Desktop", "d">>

\* The subdirectories of root, as os.walk queues them (top-down).
Children(root) ==
    LET InTree(p) == p \in Dirs
    IN SelectSeq([i \in 1..Len(EntryOrder) |-> Append(root, EntryOrder[i])], InTree)

\* core.py:159-173: os.walk(home_dir) top-down, stack holds the directories
\* still to yield.  A directory that is too deep is yielded, pruned
\* (dirs[:] = []) and skipped; elsewhere a matching file is moved, and a
\* failed move is logged and the walk goes on.
RECURSIVE os_walk_loop(_, _, _, _, _)
os_walk_loop(stack, f, F, attempts, walked) ==
    IF stack = <<>>
    THEN SearchResult(FALSE, f, attempts, walked)
    ELSE LET root == Head(stack)
             seen == Append(walked, root)
         IN IF TooDeep(root)
            THEN os_walk_loop(Tail(stack), f, F, attempts, seen)
            ELSE IF exists(f, root)
                 THEN IF root \notin F
                      THEN SearchResult(TRUE, move(f, root, Canon),
                                        Append(attempts, root), seen)
                      ELSE os_walk_loop(Children(root) \o Tail(stack), f, F,
                                        Append(attempts, root), seen)
                 ELSE os_walk_loop(Children(root) \o Tail(stack), f, F,
                                   attempts, seen)

\* core.py:122-177
find_and_move_file(f, F) ==
    IF exists(f, Cwd)
    THEN IF Cwd \notin F
         THEN SearchResult(TRUE, move(f, Cwd, Canon), <<Cwd>>, <<>>)
         ELSE SearchResult(FALSE, f, <<Cwd>>, <<>>)
    ELSE LET sp == search_paths_loop(search_paths, f, F, <<>>)
         IN IF sp.ret
            THEN sp
            ELSE os_walk_loop(<<home_dir>>, f, F, sp.attempts, <<>>)

(* -------------------- validate_xlsform_file (core.py:80) -------------- *)

\* What one call of validate_xlsform_file did.
Resolved(r, f, s, a, w) ==
    [ret |-> r, fs |-> f, searched |-> s, attempts |-> a, walked |-> w]

\* Mutant: the fallback search runs before the canonical path is looked at.
validate_SearchFirst(f, F) ==
    LET r == find_and_move_file(f, F)
    IN IF r.ret
       THEN Resolved(getsize(r.fs, Canon) > 0, r.fs, TRUE, r.attempts, r.walked)
       ELSE IF exists(f, Canon)
            THEN Resolved(getsize(f, Canon) > 0, f, TRUE, r.attempts, r.walked)
            ELSE Resolved(FALSE, r.fs, TRUE, r.attempts, r.walked)

\* Mutant: an empty file at the canonical path is treated as absent.
validate_EmptyFallsThrough(f, F) ==
    IF exists(f, Canon) /\ getsize(f, Canon) > 0
    THEN Resolved(TRUE, f, FALSE, <<>>, <<>>)
    ELSE LET r == find_and_move_file(f, F)
         IN IF r.ret
            THEN Resolved(getsize(r.fs, Canon) > 0, r.fs, TRUE, r.attempts, r.walked)
            ELSE Resolved(FALSE, r.fs, TRUE, r.attempts, r.walked)

\* core.py:89-109
validate_xlsform_file(f, F) ==
    IF exists(f, Canon)
    THEN Resolved(getsize(f, Canon) > 0, f, FALSE, <<>>, <<>>)
    ELSE LET r == find_and_move_file(f, F)
         IN IF r.ret
            THEN Resolved(getsize(r.fs, Canon) > 0, r.fs, TRUE, r.attempts, r.walked)
            ELSE Resolved(FALSE, r.fs, TRUE, r.attempts, r.walked)

(* ------------------------ create_xlsform (core.py:180) ---------------- *)

\* What the part of create_xlsform after the agent's return did: its
\* verdict, the filesystem it leaves, and the validate_xlsform_file call it
\* made, if any (validated).
Created(r, f, v, res) == [ret |-> r, fs |-> f, validated |-> v, resolved |-> res]

NotResolved == Resolved(FALSE, EmptyFs, FALSE, <<>>, <<>>)

\* core.py:251
create_search_paths == <<Tmp, VarTmp, Downloads>>

\* core.py:252-262: found, and the filesystem left.
RECURSIVE create_search_loop(_, _, _)
create_search_loop(paths, f, F) ==
    IF paths = <<>>
    THEN [found |-> FALSE, fs |-> f]
    ELSE LET potential_path == Head(paths)
         IN IF exists(f, potential_path) /\ potential_path \notin F
            THEN [found |-> TRUE, fs |-> move(f, potential_path, Canon)]
            ELSE create_search_loop(Tail(paths), f, F)

\* Mutant: the agent's return is taken as proof that the file is in place.
create_xlsform_TrustAgent(f, F) == Created(TRUE, f, FALSE, NotResolved)

\* core.py:237-277, after agent.run returned and time.sleep(2) elapsed
create_xlsform(f, F) ==
    IF exists(f, Cwd)
    THEN IF Cwd \notin F
         THEN Created(TRUE, move(f, Cwd, Canon), FALSE, NotResolved)
         ELSE Created(FALSE, f, FALSE, NotResolved)
    ELSE LET sp == create_search_loop(create_search_paths, f, F)
         IN IF ~sp.found
            THEN Created(FALSE, sp.fs, FALSE, NotResolved)
            ELSE LET v == validate_xlsform_file(sp.fs, F)
                 IN Created(v.ret, v.fs, TRUE, v)

(* --------------------- convert_xlsx_to_json (core.py:284) ------------- *)

Chars == {" ", "{", "[", "<"}

isspace(c) == c = " "

\* Every text of at most MaxBodyLen characters.
Texts == UNION {[1..n -> Chars] : n \in 0..MaxBodyLen}

RECURSIVE lstrip(_)
lstrip(s) == IF s # <<>> /\ isspace(Head(s)) THEN lstrip(Tail(s)) ELSE s

RECURSIVE rstrip(_)
rstrip(s) ==
    IF s # <<>> /\ isspace(s[Len(s)]) THEN rstrip(SubSeq(s, 1, Len(s) - 1)) ELSE s

\* str.strip()
strip(s) == rstrip(lstrip(s))

\* str.startswith(c), c one character
startswith(s, c) == s # <<>> /\ s[1] = c

\* Mutant: the body is tested without being stripped.
LooksLikeJson_NoStrip(text) == startswith(text, "{") \/ startswith(text, "[")

\* core.py:314
LooksLikeJson(text) == startswith(strip(text), "{") \/ startswith(strip(text), "[")

\* core.py:312
StatusIsOk(status) == status = StatusOK

Statuses == {StatusOK, 201, 500}

\* What requests.post does: answers, times out, or fails in transport.
Replies ==
    {[kind |-> "response", status |-> st, text |-> b] : st \in Statuses, b \in Texts}
        \cup {[kind |-> k, status |-> 0, text |-> <<>>] : k \in {"timeout", "error"}}

None == [some |-> FALSE, text |-> <<>>]

Some(t) == [some |-> TRUE, text |-> t]

\* Mutant: the body is stripped before it is written.
ResultFileText_Stripped(response) == strip(response.text)

\* core.py:319  f.write(response.text)
ResultFileText(response) == response.text

\* core.py:320  return response.text
ReturnedText(response) == response.text

\* What convert_xlsx_to_json did: its return value, the filesystem left, the
\* validate call, whether the upload was issued, and the files written.
Converted(r, v, posted, result, diag) ==
    [ret |-> r, fs |-> v.fs, resolved |-> v, posted |-> posted,
     result_file |-> result, diag_file |-> diag]

\* Mutant: the upload goes ahead whatever validate_xlsform_file returned.
convert_Unvalidated(f, F, reply) ==
    LET v == validate_xlsform_file(f, F)
    IN IF reply.kind # "response"
       THEN Converted(None, v, TRUE, None, FALSE)
       ELSE IF StatusIsOk(reply.status)
            THEN IF LooksLikeJson(reply.text)
                 THEN Converted(Some(ReturnedText(reply)), v, TRUE,
                                Some(ResultFileText(reply)), FALSE)
                 ELSE Converted(None, v, TRUE, None, FALSE)
            ELSE Converted(None, v, TRUE, None, TRUE)

\* core.py:294-340; reply is what requests.post does if it is called
convert_xlsx_to_json(f, F, reply) ==
    LET v == validate_xlsform_file(f, F)
    IN IF ~v.ret
       THEN Converted(None, v, FALSE, None, FALSE)
       ELSE IF reply.kind # "response"
            THEN Converted(None, v, TRUE, None, FALSE)
            ELSE IF StatusIsOk(reply.status)
                 THEN IF LooksLikeJson(reply.text)
                      THEN Converted(Some(ReturnedText(reply)), v, TRUE,
                                     Some(ResultFileText(reply)), FALSE)
                      ELSE Converted(None, v, TRUE, None, FALSE)
                 ELSE Converted(None, v, TRUE, None, TRUE)

\* Python truthiness of an Optional[str]  (core.py:375 "if json_result:")
Truthy(r) == r.some /\ r.text # <<>>

(* ------------------------------ state --------------------------------- *)

\* The elements of a sequence.
Range(q) == {q[i] : i \in 1..Len(q)}

\* resolve: the latest call of validate_xlsform_file (calls counts them):
\* its return value, whether it ran the fallback search, the moves it tried,
\* the directories its walk yielded, the moves that failed, and the
\* filesystem it started from.
ResolveLog(n, v, F, before) ==
    [calls |-> n, ret |-> v.ret, searched |-> v.searched, attempts |-> v.attempts,
     walked |-> v.walked, failed |-> F \cap Range(v.attempts), before |-> before]

NoReply == [kind |-> "none", status |-> 0, text |-> <<>>]

\* No HTTP response has been produced by the API's handler.
NoResponse == [status |-> 0, success |-> FALSE, data |-> <<>>, error |-> ""]

\* The pipeline's variables before generate_form_json starts.
PipelineIdle ==
    /\ clock = 0
    /\ names = [xlsform |-> -1, json |-> -1]
    /\ agent = [state |-> "pending", left |-> EmptyFs]
    /\ create = [state |-> "pending", ret |-> FALSE, validated |-> FALSE]
    /\ http = [state |-> "pending", posts |-> 0, reply |-> NoReply, ret |-> None,
               result_file |-> None, diag_file |-> FALSE]
    /\ out = [state |-> "running", value |-> <<>>, cause |-> ""]
    /\ events = <<>>
    /\ answer = NoResponse

(* ------------- validate_xlsform_file called on its own ---------------- *)

InitResolve ==
    /\ fs \in FsStates
    /\ resolve = ResolveLog(0, NotResolved, {}, fs)
    /\ pc = "idle"
    /\ PipelineIdle

\* One call of validate_xlsform_file(filename) on the current filesystem.
Resolve ==
    /\ pc = "idle"
    /\ resolve.calls < MaxCalls
    /\ \E F \in SUBSET Holding(fs) :
          LET v == validate_xlsform_file(fs, F)
          IN /\ fs' = v.fs
             /\ resolve' = ResolveLog(resolve.calls + 1, v, F, fs)
    /\ UNCHANGED <<pc, clock, names, agent, create, http, out, events,
                 answer>>

NextResolve == Resolve

SpecResolve == InitResolve /\ [][NextResolve]_vars

(* ------------------ generate_form_json (core.py:343) ------------------ *)

Init ==
    /\ fs = EmptyFs
    /\ resolve = ResolveLog(0, NotResolved, {}, EmptyFs)
    /\ pc = "start"
    /\ PipelineIdle

\* The wall clock passes a second boundary between the two reads of it
\* (core.py:26, called at 363 and 364); the run starts in second 0.
Tick ==
    /\ pc = "xls_named"
    /\ clock < MaxClock
    /\ clock' = clock + 1
    /\ UNCHANGED <<fs, resolve, pc, names, agent, create, http, out, events,
                 answer>>

\* core.py:16-27 strftime("%Y%m%d_%H%M%S") of now(): the second it is.
generate_timestamped_filename(now) == now

\* core.py:359-360: load_model or load_xlsform_prompt raises (no prompt file);
\* the exception leaves generate_form_json as it is.
LoadFails ==
    /\ pc = "start"
    /\ pc' = "done"
    /\ out' = [state |-> "raised", value |-> <<>>, cause |-> "load"]
    /\ UNCHANGED <<fs, resolve, clock, names, agent, create, http, events,
                 answer>>

\* core.py:363
NameXlsform ==
    /\ pc = "start"
    /\ names' = [names EXCEPT !.xlsform = generate_timestamped_filename(clock)]
    /\ pc' = "xls_named"
    /\ UNCHANGED <<fs, resolve, clock, agent, create, http, out, events,
                 answer>>

\* core.py:364
NameJson ==
    /\ pc = "xls_named"
    /\ names' = [names EXCEPT !.json = generate_timestamped_filename(clock)]
    /\ pc' = "json_named"
    /\ UNCHANGED <<fs, resolve, clock, agent, create, http, out, events,
                 answer>>

\* core.py:194-232: the MCP client and agent.run.  The agent is opaque: it
\* returns or raises, having left files of the expected basename anywhere.
AgentRun ==
    /\ pc = "json_named"
    /\ \E f \in AgentFsStates, st \in {"returned", "raised"} :
          /\ fs' = f
          /\ agent' = [state |-> st, left |-> f]
          /\ events' = Append(events, IF st = "returned" THEN "agent_returned"
                                                          ELSE "agent_raised")
    /\ pc' = "agent_done"
    /\ UNCHANGED <<resolve, clock, names, create, http, out, answer>>

\* core.py:369
CreateFailure == "Failed to create XLSForm"

\* core.py:378
ConvertFailure == "Form conversion failed"

\* Mutant: whatever convert_xlsx_to_json returned is returned.
FinishGenerate_NoRaise(json_result) ==
    [state |-> "returned", value |-> json_result.text, cause |-> ""]

\* core.py:375-378: return the document, or raise
FinishGenerate(json_result) ==
    IF Truthy(json_result)
    THEN [state |-> "returned", value |-> json_result.text, cause |-> ""]
    ELSE [state |-> "raised", value |-> <<>>, cause |-> ConvertFailure]

\* core.py:233-281 and 367-369: the rest of create_xlsform, then
\* generate_form_json's test of its result.
CreateXlsform ==
    /\ pc = "agent_done"
    /\ \E F \in SUBSET Holding(fs) :
          LET c == IF agent.state = "raised"
                   THEN Created(FALSE, fs, FALSE, NotResolved)
                   ELSE create_xlsform(fs, F)
          IN /\ fs' = c.fs
             /\ create' = [state |-> "done", ret |-> c.ret, validated |-> c.validated]
             /\ resolve' = IF c.validated
                           THEN ResolveLog(resolve.calls + 1, c.resolved, F,
                                           c.resolved.fs)
                           ELSE resolve
             /\ events' = events
                    \o (IF agent.state = "returned" THEN <<"sleep">> ELSE <<>>)
                    \o (IF c.validated THEN <<"validate">> ELSE <<>>)
                    \o <<IF c.ret THEN "create_ok" ELSE "create_failed">>
             /\ IF c.ret
                THEN pc' = "created" /\ out' = out
                ELSE /\ pc' = "done"
                     /\ out' = [state |-> "raised", value |-> <<>>,
                                cause |-> CreateFailure]
    /\ UNCHANGED <<clock, names, agent, http, answer>>

\* core.py:373-378 with convert_xlsx_to_json (284-340): validate, upload,
\* interpret the reply, then return the document or raise.
ConvertXlsxToJson ==
    /\ pc = "created"
    /\ \E F \in SUBSET Holding(fs), reply \in Replies :
          LET c == convert_xlsx_to_json(fs, F, reply)
          IN /\ fs' = c.fs
             /\ resolve' = ResolveLog(resolve.calls + 1, c.resolved, F, fs)
             /\ http' = [state |-> "done",
                         posts |-> IF c.posted THEN http.posts + 1 ELSE http.posts,
                         reply |-> IF c.posted THEN reply ELSE NoReply,
                         ret |-> c.ret,
                         result_file |-> c.result_file,
                         diag_file |-> c.diag_file]
             /\ events' = events \o <<"validate">>
                    \o (IF c.posted THEN <<"upload">> ELSE <<>>)
             /\ out' = FinishGenerate(c.ret)
    /\ pc' = "done"
    /\ UNCHANGED <<clock, names, agent, create, answer>>

Next ==
    \/ Tick
    \/ LoadFails
    \/ NameXlsform
    \/ NameJson
    \/ AgentRun
    \/ CreateXlsform
    \/ ConvertXlsxToJson

Spec == Init /\ [][Next]_vars

(* ====================== the locator's properties ====================== *)
(* Checked under SpecResolve: validate_xlsform_file called on every        *)
(* filesystem of FsStates, with every choice of the moves that fail.       *)

\* A call of validate_xlsform_file has been made; resolve describes it.
Called == resolve.calls >= 1

\* Number of levels of p below the home directory (p under home).
LevelsBelowHome(p) == Len(p) - 1

UnderHome(p) == p \in Dirs /\ p[1] = "home"

\* The locations the search is specified to look in.
SearchedLocs ==
    {Cwd, Tmp, VarTmp, Downloads, Desktop}
        \cup {p \in Dirs : UnderHome(p) /\ LevelsBelowHome(p) <= 3}

\* The specified search order: current directory, /tmp, /var/tmp,
\* ~/Downloads, ~/Desktop, then the home walk in its traversal order.
SearchOrder ==
    <<Cwd, Tmp, VarTmp, Downloads, Desktop, home_dir>> \o [k \in 1..3 |-> Chain(k)]

\* The first location of the search order that holds a file in f, or Canon
\* when none does.
FirstHolder(f) ==
    IF \E i \in 1..Len(SearchOrder) : exists(f, SearchOrder[i])
    THEN SearchOrder[CHOOSE i \in 1..Len(SearchOrder) :
                        /\ exists(f, SearchOrder[i])
                        /\ \A j \in 1..(i - 1) : ~exists(f, SearchOrder[j])]
    ELSE Canon

\* C1, as stated: whenever the canonical path is absent and some searched
\* location holds a non-empty file of the expected basename, the call returns
\* True with a searched location's non-empty file at the canonical path
\* (stated here for the calls in which no move fails).
C1_AnyCandidateVerified ==
    (/\ Called
     /\ resolve.failed = {}
     /\ ~exists(resolve.before, Canon)
     /\ \E p \in SearchedLocs :
           exists(resolve.before, p) /\ getsize(resolve.before, p) > 0)
    => (/\ resolve.ret
        /\ exists(fs, Canon)
        /\ getsize(fs, Canon) > 0
        /\ fs[Canon].origin \in SearchedLocs)

\* C1, amended: whenever the canonical path is absent and the first location
\* of the search order that holds a file of the expected basename holds a
\* non-empty one whose move does not fail, the call returns True and that very
\* file is at the canonical path and no longer at its source.
C1_FirstCandidateVerified ==
    LET p == FirstHolder(resolve.before)
    IN (/\ Called
        /\ ~exists(resolve.before, Canon)
        /\ p # Canon
        /\ getsize(resolve.before, p) > 0
        /\ p \notin resolve.failed)
       => (/\ resolve.ret
           /\ fs[Canon] = resolve.before[p]
           /\ ~exists(fs, p))

\* C1 witness: a non-empty file three levels below home was relocated.
C1_Witness ==
    /\ Called
    /\ resolve.searched
    /\ resolve.ret
    /\ FirstHolder(resolve.before) = Chain(3)
    /\ fs[Canon].origin = Chain(3)

\* C2: a call that finds a non-empty file at the canonical path returns True,
\* runs no search, attempts no move and leaves every file where it was; this
\* holds of the first call and of every call after it.
C2_VerifiedIdempotent ==
    (/\ Called
     /\ exists(resolve.before, Canon)
     /\ getsize(resolve.before, Canon) > 0)
    => (/\ resolve.ret
        /\ ~resolve.searched
        /\ resolve.attempts = <<>>
        /\ fs = resolve.before)

\* C2 witness: a second call in a row, with a candidate file elsewhere.
C2_Witness ==
    /\ resolve.calls >= 2
    /\ exists(resolve.before, Canon)
    /\ getsize(resolve.before, Canon) > 0
    /\ \E p \in SearchedLocs : exists(fs, p) /\ getsize(fs, p) > 0
    /\ resolve.ret

\* C3: a call that finds a file of size 0 at the canonical path returns False
\* without running the fallback search, and no file is moved, even when a
\* non-empty file of the same basename sits in a fallback location.
C3_EmptyShortCircuits ==
    (/\ Called
     /\ exists(resolve.before, Canon)
     /\ getsize(resolve.before, Canon) = 0)
    => (/\ ~resolve.ret
        /\ ~resolve.searched
        /\ resolve.attempts = <<>>
        /\ fs = resolve.before)

\* C3 witness: empty at the canonical path, non-empty in the current directory.
C3_Witness ==
    /\ Called
    /\ exists(resolve.before, Canon)
    /\ getsize(resolve.before, Canon) = 0
    /\ exists(resolve.before, Cwd)
    /\ getsize(resolve.before, Cwd) > 0
    /\ ~resolve.ret

\* C4, as stated: if no searched location holds the file the call returns
\* False; and the home walk never enters a directory more than 3 levels below
\* home, never tries to move a file from one, and leaves such files alone.
C4_NeverPastDepth3 ==
    Called =>
        /\ (/\ ~exists(resolve.before, Canon)
            /\ \A p \in SearchedLocs : ~exists(resolve.before, p))
           => ~resolve.ret
        /\ \A d \in Range(resolve.walked) : LevelsBelowHome(d) <= 3
        /\ \A p \in Dirs :
              (UnderHome(p) /\ LevelsBelowHome(p) > 3)
              => (p \notin Range(resolve.attempts) /\ fs[p] = resolve.before[p])

(* ====================== the pipeline's properties ===================== *)
(* Checked under Spec: one run of generate_form_json.                      *)

\* convert_xlsx_to_json has returned after issuing the upload.
Uploaded == http.state = "done" /\ http.posts > 0

\* The first character of t that is not whitespace is "{" or "[".
FirstNonSpaceOpensJson(t) ==
    \E i \in 1..Len(t) :
        /\ t[i] \in {"{", "["}
        /\ \A j \in 1..(i - 1) : t[j] = " "

\* C5: whenever the conversion service answered with status 200 and a body
\* whose first non-whitespace character is "{" or "[", the text
\* convert_xlsx_to_json returned, the text in the result file and the text
\* generate_form_json returned are each the body, character for character.
C5_BodyPassedThrough ==
    (/\ Uploaded
     /\ http.reply.kind = "response"
     /\ http.reply.status = 200
     /\ FirstNonSpaceOpensJson(http.reply.text))
    => (/\ http.ret = Some(http.reply.text)
        /\ http.result_file = Some(http.reply.text)
        /\ out.state = "returned"
        /\ out.value = http.reply.text)

\* C5 witness: a body with leading whitespace came back and was returned.
C5_Witness ==
    /\ Uploaded
    /\ http.reply.status = 200
    /\ http.reply.text = <<" ", "{">>
    /\ out.state = "returned"

\* C6: in a run where the agent returned and left no file of the expected
\* basename in any searched location, no upload is ever issued, and once
\* create_xlsform is done the run has ended by raising the create failure.
C6_NoArtifactNoUpload ==
    (/\ agent.state = "returned"
     /\ \A p \in SearchedLocs : ~exists(agent.left, p))
    => (/\ http.posts = 0
        /\ create.state = "done"
           => (/\ pc = "done"
               /\ out.state = "raised"
               /\ out.cause = CreateFailure))

\* C6 witness: the agent returned leaving nothing and the run has raised.
C6_Witness ==
    /\ agent.state = "returned"
    /\ agent.left = EmptyFs
    /\ pc = "done"
    /\ out.state = "raised"

\* C7, as stated: whenever the upload was issued and ended in a timeout, a
\* transport error, a status other than 200, or a status 200 with a body whose
\* first non-whitespace character is neither "{" nor "[", convert_xlsx_to_json
\* returns None and the diagnostic file has been written.
C7_FailureWritesDiagnostic ==
    (/\ Uploaded
     /\ \/ http.reply.kind \in {"timeout", "error"}
        \/ http.reply.status # 200
        \/ ~FirstNonSpaceOpensJson(http.reply.text))
    => (http.ret = None /\ http.diag_file)

\* C8, as stated: in every run that returns a document, the artifact file and
\* the result file carry the same timestamp.
C8_SameTimestamp ==
    out.state = "returned" => names.xlsform = names.json

\* C9: for every answer of the conversion service, convert_xlsx_to_json
\* returns a payload and writes the result file exactly when the status is 200
\* and the body's first non-whitespace character is "{" or "["; otherwise it
\* returns None and writes no result file.
C9_SuccessIffOkAndJson ==
    (Uploaded /\ http.reply.kind = "response")
    => IF http.reply.status = 200 /\ FirstNonSpaceOpensJson(http.reply.text)
       THEN http.ret.some /\ http.result_file.some
       ELSE http.ret = None /\ http.result_file = None

\* C9 witness: a body opening with "[" was accepted.
C9_Witness ==
    /\ Uploaded
    /\ http.reply.status = 200
    /\ http.reply.text = <<"[">>
    /\ http.ret.some
    /\ http.result_file.some

\* C10: a run that has ended either returned a non-empty document, which is
\* the payload of a successful conversion that followed a successful
\* create_xlsform, or raised with a cause; a run that has not ended has
\* delivered nothing.
C10_DocumentOrFailure ==
    /\ pc = "done"
       => \/ /\ out.state = "returned"
             /\ out.value # <<>>
             /\ create.ret
             /\ http.ret = Some(out.value)
             /\ http.result_file.some
          \/ /\ out.state = "raised"
             /\ out.cause # ""
    /\ pc # "done" => out.state = "running"

\* C10 witness: a run that uploaded and still ended by raising.
C10_Witness ==
    /\ pc = "done"
    /\ Uploaded
    /\ out.state = "raised"
    /\ out.cause = ConvertFailure

(* ================= the remaining properties of the locator ============ *)
(* Checked under SpecResolve.                                              *)

\* C11, as stated: whenever a candidate was found and its move failed, the
\* call returns False, the candidate is still where it was, and no file is at
\* the canonical path.
C11_FailedMoveNotVerified ==
    (Called /\ resolve.failed # {})
    => (/\ ~resolve.ret
        /\ \A p \in resolve.failed : fs[p] = resolve.before[p]
        /\ ~exists(fs, Canon))

(* ================ the remaining properties of the pipeline ============ *)
(* Checked under Spec.                                                     *)

\* The last two events, in order, are a and b.
EndsWith(a, b) ==
    /\ Len(events) >= 2
    /\ events[Len(events) - 1] = a
    /\ events[Len(events)] = b

\* C13: whenever validate_xlsform_file has returned True, a file of size
\* greater than 0 is at the canonical path; and an upload is issued only
\* right after such a call, so that a missing or empty artifact is never
\* uploaded.
C13_UploadOnlyVerified ==
    /\ (Called /\ resolve.ret)
       => (exists(fs, Canon) /\ getsize(fs, Canon) > 0)
    /\ http.posts > 0
       => (/\ resolve.ret
           /\ exists(fs, Canon)
           /\ getsize(fs, Canon) > 0
           /\ EndsWith("validate", "upload"))

\* C13 witness: the artifact the agent left in /tmp was relocated and uploaded.
C13_Witness ==
    /\ http.posts > 0
    /\ resolve.ret
    /\ fs[Canon].origin = Tmp
    /\ getsize(fs, Canon) > 0

\* C14, as stated: in every run where the agent returned, create_xlsform has
\* slept and then called validate_xlsform_file before it reports its verdict.
C14_AlwaysRevalidates ==
    (agent.state = "returned" /\ create.state = "done")
    => (/\ create.validated
        /\ \E i \in 1..Len(events), j \in 1..Len(events) :
              /\ i < j
              /\ events[i] = "sleep"
              /\ events[j] = "validate"
              /\ \A k \in 1..j : events[k] \notin {"create_ok", "create_failed"})

\* The agent left a file of size 0 and no other.
LeftEmptyArtifact ==
    /\ Holding(agent.left) # {}
    /\ \A p \in Holding(agent.left) : getsize(agent.left, p) = 0

\* C16, as stated: a run in which the agent returned and which failed without
\* an upload failed in create_xlsform, with a cause that is not the conversion
\* failure and that, for an empty artifact, is not the cause given when the
\* artifact is missing.
C16_ArtifactFailureDistinct ==
    (/\ pc = "done"
     /\ agent.state = "returned"
     /\ out.state = "raised"
     /\ http.posts = 0)
    => (/\ http.state = "pending"
        /\ out.cause # ConvertFailure
        /\ LeftEmptyArtifact => out.cause # CreateFailure)

(* ================= the search order of the locator ==================== *)
(* Checked under SpecResolve.                                              *)

\* C15, as stated: a call that ran the search leaves every file other than
\* the one in the first location of the search order that holds one where it
\* was, and a file that reaches the canonical path is that first one; also
\* when the move from that first location failed.
C15_OnlyFirstMatchMoved ==
    (Called /\ resolve.searched)
    => LET p == FirstHolder(resolve.before)
       IN /\ \A q \in Locs \ {p, Canon} : fs[q] = resolve.before[q]
          /\ exists(fs, Canon) => (p # Canon /\ fs[Canon] = resolve.before[p])

(* ------------------- POST /responseAI.json (app.py:20) ---------------- *)

\* app.py:42
MissingQuery == "Missing query parameter"

\* str(e) of the exception request.get_json() raises on a body it cannot
\* parse as JSON (werkzeug's BadRequest).
UnreadableBody == "400 Bad Request"

\* What request.get_json() does with the request body: raises, returns
\* something without a "query" member, or returns an object with one.
Bodies == {"unreadable", "no_query", "query"}

\* app.py:40-43
RejectResponse == [status |-> 400, success |-> FALSE, data |-> <<>>, error |-> MissingQuery]

\* app.py:56-60
ErrorResponse(e) == [status |-> 500, success |-> FALSE, data |-> <<>>, error |-> e]

\* app.py:51-54
DataResponse(d) == [status |-> 200, success |-> TRUE, data |-> d, error |-> ""]

InitHttp ==
    /\ fs = EmptyFs
    /\ resolve = ResolveLog(0, NotResolved, {}, EmptyFs)
    /\ pc = "request"
    /\ PipelineIdle

\* app.py:36-48: read the body; answer at once, or call generate_form_json.
ReadRequest ==
    /\ pc = "request"
    /\ \E body \in Bodies :
          CASE body = "unreadable" ->
                 pc' = "responded" /\ answer' = ErrorResponse(UnreadableBody)
            [] body = "no_query" ->
                 pc' = "responded" /\ answer' = RejectResponse
            [] body = "query" ->
                 pc' = "start" /\ answer' = answer
    /\ UNCHANGED <<fs, resolve, clock, names, agent, create, http, out, events>>

\* app.py:48-60: generate_form_json returned or raised; answer.
Respond ==
    /\ pc = "done"
    /\ answer' = IF out.state = "returned"
                   THEN DataResponse(out.value)
                   ELSE ErrorResponse(out.cause)
    /\ pc' = "responded"
    /\ UNCHANGED <<fs, resolve, clock, names, agent, create, http, out, events>>

NextHttp ==
    \/ ReadRequest
    \/ Next
    \/ Respond

SpecHttp == InitHttp /\ [][NextHttp]_vars

(* ======================= the API's properties ========================= *)
(* Checked under SpecHttp: one request to POST /responseAI.json.           *)

\* generate_form_json was called for the request.
GenerateCalled == out.state # "running" \/ names.xlsform >= 0

\* C12, as stated: every answer is one of three: success with the document
\* generate_form_json returned; failure with status 500 and the cause
\* generate_form_json raised; failure with status 400, for a body without a
\* query, generate_form_json never having been called.
C12_ThreeAnswers ==
    pc = "responded" =>
        \/ /\ answer.success
           /\ out.state = "returned"
           /\ answer.data = out.value
        \/ /\ ~answer.success
           /\ answer.status = 500
           /\ out.state = "raised"
           /\ answer.error = out.cause
        \/ /\ ~answer.success
           /\ answer.status = 400
           /\ ~GenerateCalled

====
